---- MODULE Spec2Model ----
(***************************************************************************)
(* Daily-update compliance engine of the team-analysis Discord bot:        *)
(* report store (src/storage/daily.py), ignored-date registry              *)
(* (src/storage/ignored_dates.py), roster (src/storage/users.py), the      *)
(* reminder scheduler and the on-demand escalations (src/bot/tasks.py,     *)
(* src/bot/commands/admin.py).                                             *)
(*                                                                         *)
(* Calendar dates are day numbers: day 0 is 2024-01-01, a Monday, and the  *)
(* model stays inside the year 2024.  Date strings are sequences of        *)
(* character codes, compared as Python compares str values.                *)
(***************************************************************************)
EXTENDS Integers, Sequences, FiniteSets, TLC

----------------------------------------------------------------------------
(* Characters and strings *)

Hyphen == 45
Comma == 44
Space == 32
Zero == 48

Digit(k) == Zero + k

IsDigit(c) == c >= Zero /\ c <= Zero + 9

Min(S) == CHOOSE x \in S : \A y \in S : x <= y

Max(S) == CHOOSE x \in S : \A y \in S : x >= y

\* Python str comparison a <= b: code-point order at the first difference,
\* a proper prefix is smaller.
StrLE(a, b) ==
    LET common == 1..Min({Len(a), Len(b)})
        diff == {i \in common : a[i] # b[i]}
    IN  IF diff = {} THEN Len(a) <= Len(b)
        ELSE a[Min(diff)] < b[Min(diff)]

\* int() of a field of decimal digits
RECURSIVE DigitsValue(_)
DigitsValue(s) ==
    IF Len(s) = 0 THEN 0
    ELSE 10 * DigitsValue(SubSeq(s, 1, Len(s) - 1)) + (s[Len(s)] - Zero)

AllDigits(s) == \A i \in DOMAIN s : IsDigit(s[i])

----------------------------------------------------------------------------
(* Calendar of the year 2024 *)

MonthDays == <<31, 29, 31, 30, 31, 30, 31, 31, 30, 31, 30, 31>>

RECURSIVE DaysBefore(_)
DaysBefore(m) == IF m = 1 THEN 0 ELSE DaysBefore(m - 1) + MonthDays[m - 1]

\* day number of (month, day) in 2024
DayNumber(m, d) == DaysBefore(m) + d - 1

MonthOf(n) == CHOOSE m \in 1..12 : DaysBefore(m) <= n /\ n < DaysBefore(m) + MonthDays[m]

DayOf(n) == n - DaysBefore(MonthOf(n)) + 1

\* datetime.weekday(): 0 = Monday .. 6 = Sunday
weekday(n) == n % 7

TwoDigits(k) == <<Digit(k \div 10), Digit(k % 10)>>

Plain(k) == IF k < 10 THEN <<Digit(k)>> ELSE TwoDigits(k)

YearStr == <<Digit(2), Digit(0), Digit(2), Digit(4)>>

\* date.strftime("%Y-%m-%d")
strftime(n) == YearStr \o <<Hyphen>> \o TwoDigits(MonthOf(n)) \o <<Hyphen>> \o TwoDigits(DayOf(n))

\* the same date written without zero padding, e.g. 2024-1-9
Unpadded(n) == YearStr \o <<Hyphen>> \o Plain(MonthOf(n)) \o <<Hyphen>> \o Plain(DayOf(n))

\* datetime.strptime(s, "%Y-%m-%d"): four year digits, one or two month
\* digits (1..12), one or two day digits (1..days of the month).  The result
\* is [ok |-> FALSE] for the ValueError, else the day number.
strptime(s) ==
    LET H == {i \in DOMAIN s : s[i] = Hyphen}
    IN  IF Cardinality(H) # 2 THEN [ok |-> FALSE, n |-> 0]
        ELSE LET h1 == Min(H)
                 h2 == Max(H)
                 ys == SubSeq(s, 1, h1 - 1)
                 ms == SubSeq(s, h1 + 1, h2 - 1)
                 ds == SubSeq(s, h2 + 1, Len(s))
             IN  IF /\ ys = YearStr
                    /\ Len(ms) \in {1, 2} /\ AllDigits(ms)
                    /\ DigitsValue(ms) \in 1..12
                    /\ Len(ds) \in {1, 2} /\ AllDigits(ds)
                    /\ DigitsValue(ds) \in 1..MonthDays[DigitsValue(ms)]
                 THEN [ok |-> TRUE, n |-> DayNumber(DigitsValue(ms), DigitsValue(ds))]
                 ELSE [ok |-> FALSE, n |-> 0]

----------------------------------------------------------------------------
(* Bounds of the model *)

\* first value of "today" the model starts from: 2024-01-08, a Monday
FirstToday == 7

\* number of days the clock may advance after FirstToday
MaxDays == 6

\* how many days before today an explicit report date may lie
DateSpan == 2

\* the same for the specifications of the report store alone
StoreSpan == 1

\* largest row id the report table hands out
MaxReportId == 2

UserIds == {"u1", "u2"}

Roles == {"teammember", "po"}

Contents == {"c1", "c2"}

Procs == {1, 2}

\* report_date = None
None == <<>>

----------------------------------------------------------------------------
(* State *)

VARIABLES
    today,          \* calendar day get_br_time() returns
    users,          \* table users: sequence of [user_id, role] in rowid order
    reports,        \* table daily_updates: sequence of [id, user_id, report_date, content,
                    \* submitted_at, last_updated_at]
    nextReportId,   \* AUTOINCREMENT counter of daily_updates
    sub,            \* submit_daily_update calls in progress, per caller
    ignored,        \* table ignored_dates: sequence of [id, start_date, end_date]
    nextIgnoredId,  \* AUTOINCREMENT counter of ignored_dates
    cfg,            \* DateConfigModal.on_submit in progress: its position and its locals
    query,          \* the last query made and the value it returned
    lastOp,         \* what the last completed operation returned
    features,       \* feature_toggles.json: feature name -> enabled
    cyc             \* the daily_reminder task: its position and its local variables

vars == <<today, users, reports, nextReportId, sub, ignored, nextIgnoredId, cfg, query, lastOp, features, cyc>>

cycVars == <<features, cyc>>

regVars == <<ignored, nextIgnoredId, cfg>>

NoQuery == [op |-> "none"]

\* feature_toggle.py: DEFAULT_FEATURES
DEFAULT_FEATURES == [f \in {"ponto"} |-> FALSE]

\* the reminder task between two runs, before it first ran
IdleCyc ==
    [pc |-> "idle", outcome |-> "none", day |-> 0, registry |-> <<>>, check |-> 0,
     missing |-> <<>>, idx |-> 0, channel |-> FALSE, attempts |-> <<>>,
     processed |-> <<>>, pending |-> <<>>, digest |-> "none"]

NoOp == [op |-> "none", ok |-> FALSE, branch |-> ""]

\* no configuration modal is being handled
IdleCfg == [pc |-> "idle", text |-> <<>>, old |-> <<>>, pairs |-> <<>>]

IdleSub == [pc |-> "idle", user |-> "", date |-> None, content |-> "", existing |-> 0]

\* every roster the register command can have built over UserIds
RECURSIVE SeqsOver(_, _)
SeqsOver(S, k) ==
    IF k = 0 THEN {<<>>}
    ELSE LET shorter == SeqsOver(S, k - 1)
         IN  shorter \cup {Append(q, x) : q \in {r \in shorter : Len(r) = k - 1}, x \in S}

Rosters ==
    {r \in SeqsOver([user_id : UserIds, role : Roles], Cardinality(UserIds)) :
        \A i, j \in DOMAIN r : i # j => r[i].user_id # r[j].user_id}

\* roster of the report-store specifications: u1 is registered, u2 is not
StoreRosters == {r \in Rosters : Len(r) = 1 /\ r[1].user_id = "u1"}

----------------------------------------------------------------------------
(* Roster: src/storage/users.py *)

\* a look-up that finds a row for every id
get_user_any(uid) == {[user_id |-> uid, role |-> "teammember"]}

\* get_user(user_id): the row of the user, or no row
get_user(uid) == {users[i] : i \in {j \in DOMAIN users : users[j].user_id = uid}}

\* a SELECT without the WHERE role = ? clause
get_users_of_any_role(role) == users

\* get_users_by_role(role): SELECT * FROM users WHERE role = ?
get_users_by_role(role) == SelectSeq(users, LAMBDA row : row.role = role)

----------------------------------------------------------------------------
(* Report store: src/storage/daily.py *)

\* a table created without the UNIQUE constraint
NoUniqueConstraint(uid, d) == FALSE

\* UNIQUE(user_id, report_date) of table daily_updates
UniqueViolation(uid, d) ==
    \E i \in DOMAIN reports : reports[i].user_id = uid /\ reports[i].report_date = d

\* SELECT * FROM daily_updates WHERE user_id = ? AND report_date = ?; fetchone()
\* gives the id of the first matching row or 0 for no row
existing_report(uid, d) ==
    LET hits == {i \in DOMAIN reports : reports[i].user_id = uid /\ reports[i].report_date = d}
    IN  IF hits = {} THEN 0 ELSE reports[Min(hits)].id

\* now = get_br_time().isoformat(), to the day
now == today

\* an UPDATE that sets both timestamp columns
OverwriteTimestamps(row) == [row EXCEPT !.submitted_at = now, !.last_updated_at = now]

\* the timestamp columns the UPDATE sets: last_updated_at = ?
RefreshTimestamps(row) == [row EXCEPT !.last_updated_at = now]

\* an UPDATE that only refreshes last_updated_at
UpdateKeepsContent(rows, id, c) ==
    [i \in DOMAIN rows |-> IF rows[i].id = id THEN RefreshTimestamps(rows[i]) ELSE rows[i]]

\* UPDATE daily_updates SET content = ?, last_updated_at = ? WHERE id = ?
UpdateRow(rows, id, c) ==
    [i \in DOMAIN rows |->
        IF rows[i].id = id THEN RefreshTimestamps([rows[i] EXCEPT !.content = c]) ELSE rows[i]]

\* the default report date of submit_daily_update and has_submitted_daily_update
default_report_date == strftime(today - 1)

\* lines 25-46: the checks and the look-up of the existing report
submit_begin(p, uid, c, rd) ==
    /\ sub[p].pc = "idle"
    /\ LET d == IF rd = None THEN default_report_date ELSE rd
       IN  IF get_user(uid) = {}
           THEN /\ lastOp' = [op |-> "submit", ok |-> FALSE, branch |-> "not_registered"]
                /\ UNCHANGED sub
           ELSE IF ~strptime(d).ok
           THEN /\ lastOp' = [op |-> "submit", ok |-> FALSE, branch |-> "invalid_date"]
                /\ UNCHANGED sub
           ELSE /\ sub' = [sub EXCEPT ![p] = [pc |-> "write", user |-> uid, date |-> d,
                                              content |-> c, existing |-> existing_report(uid, d)]]
                /\ UNCHANGED lastOp
    /\ query' = NoQuery
    /\ UNCHANGED <<today, users, reports, nextReportId, regVars, cycVars>>

\* lines 48-69: UPDATE of the row found, or INSERT; sqlite3.IntegrityError of
\* the INSERT is an sqlite3.Error and makes the call return failure
submit_write(p) ==
    /\ sub[p].pc = "write"
    /\ LET s == sub[p]
       IN  IF s.existing # 0
           THEN /\ reports' = UpdateRow(reports, s.existing, s.content)
                /\ UNCHANGED nextReportId
                /\ lastOp' = [op |-> "submit", ok |-> TRUE, branch |-> "updated"]
           ELSE IF UniqueViolation(s.user, s.date)
           THEN /\ UNCHANGED <<reports, nextReportId>>
                /\ lastOp' = [op |-> "submit", ok |-> FALSE, branch |-> "storage_error"]
           ELSE /\ nextReportId <= MaxReportId
                /\ reports' = Append(reports, [id |-> nextReportId, user_id |-> s.user,
                                               report_date |-> s.date, content |-> s.content,
                                               submitted_at |-> now, last_updated_at |-> now])
                /\ nextReportId' = nextReportId + 1
                /\ lastOp' = [op |-> "submit", ok |-> TRUE, branch |-> "created"]
    /\ sub' = [sub EXCEPT ![p] = IdleSub]
    /\ query' = NoQuery
    /\ UNCHANGED <<today, users, regVars, cycVars>>

\* clear_all_daily_updates: DELETE FROM daily_updates
clear_all_daily_updates ==
    /\ reports' = <<>>
    /\ lastOp' = [NoOp EXCEPT !.op = "clear_all", !.ok = TRUE]
    /\ query' = NoQuery
    /\ UNCHANGED <<today, users, nextReportId, sub, regVars, cycVars>>

\* the report dates the /daily command hands to submit_daily_update: None, or
\* a date parse_date_string normalised that is not after today
SubmitDates(span) == {None} \cup {strftime(n) : n \in (today - span)..today}

----------------------------------------------------------------------------
(* Ignored-date registry: src/storage/ignored_dates.py *)

\* largest row id the ignored_dates table hands out
MaxIgnoredId == 3

\* str.split(sep) for a one-character separator
RECURSIVE Split(_, _)
Split(s, sep) ==
    LET hits == {i \in DOMAIN s : s[i] = sep}
    IN  IF hits = {} THEN <<s>>
        ELSE <<SubSeq(s, 1, Min(hits) - 1)>> \o Split(SubSeq(s, Min(hits) + 1, Len(s)), sep)

\* str.strip() for blanks
strip(s) ==
    LET solid == {i \in DOMAIN s : s[i] # Space}
    IN  IF solid = {} THEN <<>> ELSE SubSeq(s, Min(solid), Max(solid))

\* str.count('-')
CountHyphens(s) == Cardinality({i \in DOMAIN s : s[i] = Hyphen})

\* lines 152-179: what one comma-separated part contributes
ParsePart(part) ==
    IF CountHyphens(part) = 2
    THEN IF strptime(part).ok THEN <<(<<part, part>>)>> ELSE <<>>
    ELSE IF CountHyphens(part) > 2
    THEN LET date_parts == Split(part, Hyphen)
         IN  IF Len(date_parts) = 6
             THEN LET start_date == date_parts[1] \o <<Hyphen>> \o date_parts[2] \o <<Hyphen>> \o date_parts[3]
                      end_date == date_parts[4] \o <<Hyphen>> \o date_parts[5] \o <<Hyphen>> \o date_parts[6]
                  IN  IF strptime(start_date).ok /\ strptime(end_date).ok
                      THEN <<(<<start_date, end_date>>)>>
                      ELSE <<>>
             ELSE <<>>
    ELSE <<>>

\* a loop that gives up at the first part that is not a date
RECURSIVE ParsePartsStrict(_)
ParsePartsStrict(parts) ==
    IF parts = <<>> THEN <<>>
    ELSE IF ParsePart(parts[1]) = <<>> THEN <<>>
    ELSE ParsePart(parts[1]) \o ParsePartsStrict(Tail(parts))

\* lines 149-179: the loop over the parts
RECURSIVE ParseParts(_)
ParseParts(parts) ==
    IF parts = <<>> THEN <<>> ELSE ParsePart(parts[1]) \o ParseParts(Tail(parts))

\* parse_date_config(date_config)
parse_date_config(date_config) ==
    IF strip(date_config) = <<>> THEN <<>>
    ELSE LET raw == Split(date_config, Comma)
         IN  ParseParts([i \in DOMAIN raw |-> strip(raw[i])])

\* line 201, second comparison: date_str <= end_date
NotAfterEnd(date_str, end_date) == StrLE(date_str, end_date)

\* SELECT * FROM ignored_dates ORDER BY start_date (ties in rowid order)
RECURSIVE OrderByStart(_)
OrderByStart(rows) ==
    IF rows = <<>> THEN <<>>
    ELSE LET first == CHOOSE i \in DOMAIN rows :
                        \A j \in DOMAIN rows :
                            \/ (StrLE(rows[i].start_date, rows[j].start_date) /\ rows[i].start_date # rows[j].start_date)
                            \/ (rows[i].start_date = rows[j].start_date /\ i <= j)
         IN  <<rows[first]>> \o OrderByStart(SelectSeq(rows, LAMBDA r : r.id # rows[first].id))

get_all_ignored_dates == OrderByStart(ignored)

\* should_ignore_date(date) for the calendar day n
should_ignore_date(n) ==
    LET date_str == strftime(n)
        ignored_dates == get_all_ignored_dates
    IN  \E i \in DOMAIN ignored_dates :
            /\ StrLE(ignored_dates[i].start_date, date_str)
            /\ NotAfterEnd(date_str, ignored_dates[i].end_date)

\* add_ignored_date for each pair in turn, on the table rows with the id
\* counter next: a pair that fails strptime is refused, the others are inserted
RECURSIVE AddPairs(_, _, _)
AddPairs(rows, next, pairs) ==
    IF pairs = <<>> THEN [rows |-> rows, next |-> next]
    ELSE IF strptime(pairs[1][1]).ok /\ strptime(pairs[1][2]).ok
    THEN AddPairs(Append(rows, [id |-> next, start_date |-> pairs[1][1], end_date |-> pairs[1][2]]),
                  next + 1, Tail(pairs))
    ELSE AddPairs(rows, next, Tail(pairs))

\* a DELETE that matches no row
remove_nothing(rows, date_id) == rows

\* remove_ignored_date(date_id): DELETE FROM ignored_dates WHERE id = ?
remove_ignored_date(rows, date_id) == SelectSeq(rows, LAMBDA r : r.id # date_id)

\* date_config_modal.py lines 44-46: remove_ignored_date for every entry of
\* existing_dates
RECURSIVE RemoveEach(_, _)
RemoveEach(rows, existing_dates) ==
    IF existing_dates = <<>> THEN rows
    ELSE RemoveEach(remove_ignored_date(rows, existing_dates[1].id), Tail(existing_dates))

\* an on_submit that removes the stored rows before it looks at the pairs
on_submit_clear_first(text) ==
    LET date_pairs == parse_date_config(text)
        added == AddPairs(RemoveEach(ignored, get_all_ignored_dates), nextIgnoredId, date_pairs)
    IN  /\ added.next <= MaxIgnoredId + 1
        /\ ignored' = added.rows
        /\ nextIgnoredId' = added.next
        /\ UNCHANGED cfg
        /\ lastOp' = IF date_pairs = <<>>
                     THEN [op |-> "config", ok |-> FALSE, branch |-> "no_valid_date"]
                     ELSE [op |-> "config", ok |-> TRUE, branch |-> "configured"]

\* DateConfigModal.on_submit(text): nothing for a text without a valid pair,
\* else remove_ignored_date for every stored row and add_ignored_date for
\* every parsed pair
on_submit(text) ==
    LET date_pairs == parse_date_config(text)
    IN  IF date_pairs = <<>>
        THEN /\ UNCHANGED regVars
             /\ lastOp' = [op |-> "config", ok |-> FALSE, branch |-> "no_valid_date"]
        ELSE LET added == AddPairs(RemoveEach(ignored, get_all_ignored_dates), nextIgnoredId, date_pairs)
             IN  /\ added.next <= MaxIgnoredId + 1
                 /\ ignored' = added.rows
                 /\ nextIgnoredId' = added.next
                 /\ UNCHANGED cfg
                 /\ lastOp' = [op |-> "config", ok |-> TRUE, branch |-> "configured"]

\* join texts with commas
RECURSIVE CommaList(_)
CommaList(texts) ==
    IF Len(texts) = 1 THEN texts[1]
    ELSE texts[1] \o <<Comma, Space>> \o CommaList(Tail(texts))

RangeText(a, b) == a \o <<Hyphen>> \o b

----------------------------------------------------------------------------
(* Report store under interleaved callers *)

InitStore ==
    /\ today = FirstToday + 1
    /\ users \in StoreRosters
    /\ reports = <<>>
    /\ nextReportId = 1
    /\ sub = [p \in Procs |-> IdleSub]
    /\ ignored = <<>>
    /\ nextIgnoredId = 1
    /\ cfg = IdleCfg
    /\ query = NoQuery
    /\ lastOp = NoOp
    /\ features = DEFAULT_FEATURES
    /\ cyc = IdleCyc

SubmitBegin == \E p \in Procs, uid \in UserIds, c \in Contents, rd \in SubmitDates(StoreSpan) : submit_begin(p, uid, c, rd)

SubmitWrite == \E p \in Procs : submit_write(p)

ClearAll == clear_all_daily_updates

NextStore == SubmitBegin \/ SubmitWrite \/ ClearAll

SpecStore == InitStore /\ [][NextStore]_vars

\* submit_daily_update is a synchronous function: inside the one bot process
\* nothing runs between its look-up and its write
NoSubmitInProgress == \A p \in Procs : sub[p].pc = "idle"

SubmitBeginSeq ==
    /\ NoSubmitInProgress
    /\ \E uid \in UserIds, c \in Contents, rd \in SubmitDates(StoreSpan) : submit_begin(1, uid, c, rd)

ClearAllSeq == NoSubmitInProgress /\ clear_all_daily_updates

NextSeq == SubmitBeginSeq \/ SubmitWrite \/ ClearAllSeq

SpecSeq == InitStore /\ [][NextSeq]_vars

ReportsFor(rows, uid, d) == {i \in DOMAIN rows : rows[i].user_id = uid /\ rows[i].report_date = d}

OtherReports(rows, uid, d) == SelectSeq(rows, LAMBDA r : ~(r.user_id = uid /\ r.report_date = d))

\* C4: whatever the interleaving of the look-up and write steps of submits and
\* of clear_all, no two stored reports have the same (user_id, report_date).
C4_OneReportPerKey ==
    \A i, j \in DOMAIN reports :
        (reports[i].user_id = reports[j].user_id /\ reports[i].report_date = reports[j].report_date)
            => i = j

\* two submits for one key both looked up "no report"; the first inserted and
\* the second was refused by the table
C4_Witness ==
    /\ lastOp.op = "submit" /\ lastOp.branch = "storage_error"
    /\ reports # <<>>

\* C5: a submit of a registered user with a valid date that runs to its end
\* leaves exactly one report for its (user, date), holding the content of this
\* call (so of the second of two calls), and leaves every other report as it was.
C5_SubmitUpserts ==
    [][\A p \in Procs :
        (sub[p].pc = "write" /\ sub'[p].pc = "idle") =>
            LET s == sub[p]
                hits == ReportsFor(reports', s.user, s.date)
            IN  /\ lastOp'.ok
                /\ Cardinality(hits) = 1
                /\ \A i \in hits : reports'[i].content = s.content
                /\ OtherReports(reports', s.user, s.date) = OtherReports(reports, s.user, s.date)]_vars

\* the second call for a key has run: the report found by the look-up was
\* overwritten with the other content
C5_Witness ==
    /\ lastOp.op = "submit" /\ lastOp.branch = "updated"
    /\ \E i \in DOMAIN reports : reports[i].content = "c2" /\ reports[i].id = 1
    /\ Len(reports) = 2

----------------------------------------------------------------------------
(* Compliance engine: get_missing_updates (src/storage/daily.py) and the   *)
(* team pending report (src/bot/commands/admin.py)                         *)

\* largest look-back period asked of the team pending report
MaxLookback == 3

\* a Sunday rule that goes back two days only
default_check_date_short(t) ==
    LET yesterday == t - 1
    IN  IF weekday(yesterday) >= 5 THEN t - 2 ELSE yesterday

\* lines 192-205: the date get_missing_updates checks when called without one
default_check_date(t) ==
    LET yesterday == t - 1
    IN  IF weekday(yesterday) = 6 THEN t - 3
        ELSE IF weekday(yesterday) = 5 THEN t - 2
        ELSE yesterday

\* a weekend test that lets Saturday through
OnlySunday(n) == weekday(n) > 5

\* line 208: check_date.weekday() >= 5
check_date_is_weekend(n) == weekday(n) >= 5

\* a query that forgets the report_date = ? condition
submitted_any_date(for_date, team_member_ids) ==
    {reports[i].user_id : i \in {j \in DOMAIN reports :
        \E k \in DOMAIN team_member_ids : reports[j].user_id = team_member_ids[k]}}

\* lines 222-227: SELECT DISTINCT user_id FROM daily_updates
\*                WHERE report_date = ? AND user_id IN (team_member_ids)
submitted_users(for_date, team_member_ids) ==
    {reports[i].user_id : i \in {j \in DOMAIN reports :
        /\ reports[j].report_date = for_date
        /\ \E k \in DOMAIN team_member_ids : reports[j].user_id = team_member_ids[k]}}

\* get_missing_updates(for_date), for_date a date string or None
get_missing_updates(fd) ==
    LET for_date == IF fd = None THEN strftime(default_check_date(today)) ELSE fd
        check_date == strptime(for_date).n
        team_members == get_users_by_role("teammember")
        team_member_ids == [i \in DOMAIN team_members |-> team_members[i].user_id]
    IN  IF check_date_is_weekend(check_date) THEN <<>>
        ELSE IF team_member_ids = <<>> THEN <<>>
        ELSE SelectSeq(team_member_ids,
                       LAMBDA user_id : user_id \notin submitted_users(for_date, team_member_ids))

\* list.sort(reverse=True) on strings
RECURSIVE SortReverse(_)
SortReverse(q) ==
    IF q = <<>> THEN <<>>
    ELSE LET top == CHOOSE i \in DOMAIN q : \A j \in DOMAIN q : StrLE(q[j], q[i])
         IN  <<q[top]>> \o SortReverse(SubSeq(q, 1, top - 1) \o SubSeq(q, top + 1, Len(q)))

\* admin.py lines 1076-1090: the dates of the window that are checked
valid_dates(start_date, yesterday) ==
    LET days == [i \in 1..(yesterday - start_date + 1) |-> start_date + i - 1]
        kept == SelectSeq(days, LAMBDA d : weekday(d) < 5 /\ ~should_ignore_date(d))
    IN  [i \in DOMAIN kept |-> strftime(kept[i])]

\* get_all_daily_updates(start_date, end_date): the rows of the window
get_all_daily_updates(start_str, end_str) ==
    SelectSeq(reports, LAMBDA r : StrLE(start_str, r.report_date) /\ StrLE(r.report_date, end_str))

\* check_team_missing_dailies(periodo): for every team member with pending
\* dates, the missing dates, latest first
check_team_missing_dailies(periodo) ==
    LET team_members == SelectSeq(users, LAMBDA u : u.role = "teammember")
        yesterday == today - 1
        start_date == today - periodo
        all_daily_updates == get_all_daily_updates(strftime(start_date), strftime(yesterday))
        dates == valid_dates(start_date, yesterday)
        updated_dates(uid) == {all_daily_updates[i].report_date :
                                 i \in {j \in DOMAIN all_daily_updates : all_daily_updates[j].user_id = uid}}
        missing_dates(uid) == SortReverse(SelectSeq(dates, LAMBDA d : d \notin updated_dates(uid)))
        members == {team_members[i].user_id : i \in DOMAIN team_members}
    IN  [uid \in {m \in members : missing_dates(m) # <<>>} |-> missing_dates(uid)]

(* Actions of the engine specification *)

\* the dates asked about: the days of the window ending today
QueryDays == (today - DateSpan)..today

QueryMissing ==
    /\ NoSubmitInProgress
    /\ \E n \in QueryDays :
        query' = [op |-> "missing", day |-> n, result |-> get_missing_updates(strftime(n))]
    /\ UNCHANGED <<today, users, reports, nextReportId, sub, regVars, lastOp, cycVars>>

QueryMissingDefault ==
    /\ NoSubmitInProgress
    /\ query' = [op |-> "missing", day |-> default_check_date(today), result |-> get_missing_updates(None)]
    /\ UNCHANGED <<today, users, reports, nextReportId, sub, regVars, lastOp, cycVars>>

TeamPending ==
    /\ NoSubmitInProgress
    /\ \E periodo \in 1..MaxLookback :
        query' = [op |-> "team_pending", periodo |-> periodo, result |-> check_team_missing_dailies(periodo)]
    /\ UNCHANGED <<today, users, reports, nextReportId, sub, regVars, lastOp, cycVars>>

\* /testar-datas-ignoradas: should_ignore_date for a date of the window
TestIgnored ==
    /\ NoSubmitInProgress
    /\ \E n \in QueryDays :
        query' = [op |-> "ignored", day |-> n, result |-> should_ignore_date(n)]
    /\ UNCHANGED <<today, users, reports, nextReportId, sub, regVars, lastOp, cycVars>>

\* what an administrator types into the configuration modal
ConfigTexts ==
    { strftime(today),
      RangeText(strftime(today - 2), strftime(today - 1)),
      CommaList(<<Unpadded(today - 1), <<Digit(9)>>, strftime(today)>>),
      <<Space>> }

ConfigSubmit ==
    /\ NoSubmitInProgress
    /\ \E text \in ConfigTexts : on_submit(text)
    /\ query' = NoQuery
    /\ UNCHANGED <<today, users, reports, nextReportId, sub, cycVars>>

EngineSubmitBegin ==
    /\ NoSubmitInProgress
    /\ \E uid \in UserIds, rd \in SubmitDates(DateSpan) : submit_begin(1, uid, "c1", rd)

\* rosters of the engine specification: both users registered, in either
\* order, at least one of them a team member
EngineRosters == {r \in Rosters : Len(r) = 2 /\ \E i \in DOMAIN r : r[i].role = "teammember"}

InitEngine ==
    /\ today = FirstToday
    /\ users \in EngineRosters
    /\ reports = <<>>
    /\ nextReportId = 1
    /\ sub = [p \in Procs |-> IdleSub]
    /\ ignored = <<>>
    /\ nextIgnoredId = 1
    /\ cfg = IdleCfg
    /\ query = NoQuery
    /\ lastOp = NoOp
    /\ features = DEFAULT_FEATURES
    /\ cyc = IdleCyc

NextEngine ==
    \/ EngineSubmitBegin
    \/ SubmitWrite
    \/ ConfigSubmit
    \/ QueryMissing
    \/ QueryMissingDefault
    \/ TeamPending
    \/ TestIgnored

SpecEngine == InitEngine /\ [][NextEngine]_vars

\* the calendar day n lies in a range of rows, the stored strings read as dates
LiesInRange(rows, n) ==
    \E i \in DOMAIN rows :
        strptime(rows[i].start_date).n <= n /\ n <= strptime(rows[i].end_date).n

HasReportFor(uid, n) ==
    \E i \in DOMAIN reports : reports[i].user_id = uid /\ strptime(reports[i].report_date).n = n

IsTeamMember(uid) == \E i \in DOMAIN users : users[i].user_id = uid /\ users[i].role = "teammember"

RosterPosition(uid) == CHOOSE i \in DOMAIN users : users[i].user_id = uid

\* C1: for a weekday d, get_missing_updates(d) lists exactly the team members
\* without a report for d, each once, in the order of the roster.
C1_MissingIsRosterMinusReported ==
    (query.op = "missing" /\ weekday(query.day) < 5) =>
        LET R == query.result
        IN  /\ \A i \in DOMAIN R : IsTeamMember(R[i]) /\ ~HasReportFor(R[i], query.day)
            /\ \A uid \in UserIds :
                (IsTeamMember(uid) /\ ~HasReportFor(uid, query.day)) => \E i \in DOMAIN R : R[i] = uid
            /\ \A i, j \in DOMAIN R : i < j => RosterPosition(R[i]) < RosterPosition(R[j])

\* two team members, u2 before u1 in the roster; one of them reported for the
\* day asked about and the other is the whole answer
C1_Witness ==
    /\ query.op = "missing" /\ weekday(query.day) < 5
    /\ Len(query.result) = 1
    /\ \E uid \in UserIds : IsTeamMember(uid) /\ HasReportFor(uid, query.day)
    /\ \A uid \in UserIds : IsTeamMember(uid)
    /\ users[1].user_id = "u2"

\* C2: get_missing_updates(d) is empty whenever d is a Saturday or Sunday or
\* lies inside a stored ignored range.
C2_EmptyWhenNotCheckable ==
    (query.op = "missing" /\ (weekday(query.day) >= 5 \/ LiesInRange(ignored, query.day)))
        => query.result = <<>>

\* C6: for a Saturday or Sunday d, get_missing_updates(d) is empty and the team
\* pending report lists d for nobody, whatever the registry holds.
C6_WeekendNeverCheckable ==
    /\ (query.op = "missing" /\ weekday(query.day) >= 5) => query.result = <<>>
    /\ query.op = "team_pending" =>
        \A uid \in DOMAIN query.result : \A i \in DOMAIN query.result[uid] :
            weekday(strptime(query.result[uid][i]).n) < 5

\* a Saturday or Sunday was asked about while a team member had no report for
\* it and the registry was not empty
C6_Witness ==
    /\ query.op = "missing" /\ weekday(query.day) >= 5
    /\ \E uid \in UserIds : IsTeamMember(uid) /\ ~HasReportFor(uid, query.day)
    /\ ignored # <<>>

\* C7: should_ignore_date(d) is true exactly when d lies, as a calendar date,
\* in a range add_ignored_date accepted and stored.
C7_IgnoredIffInStoredRange ==
    query.op = "ignored" => (query.result <=> LiesInRange(ignored, query.day))

----------------------------------------------------------------------------
(* The default check date as a function of today *)

\* number of values of today the calendar specification covers
CalendarDays == 120

InitCalendar ==
    /\ today \in FirstToday..(FirstToday + CalendarDays)
    /\ users = <<>>
    /\ reports = <<>>
    /\ nextReportId = 1
    /\ sub = [p \in Procs |-> IdleSub]
    /\ ignored = <<>>
    /\ nextIgnoredId = 1
    /\ cfg = IdleCfg
    /\ query = NoQuery
    /\ lastOp = NoOp
    /\ features = DEFAULT_FEATURES
    /\ cyc = IdleCyc

\* get_missing_updates() up to line 205
ComputeDefaultDate ==
    /\ query' = [op |-> "default_date", day |-> today, result |-> default_check_date(today)]
    /\ UNCHANGED <<today, users, reports, nextReportId, sub, regVars, lastOp, cycVars>>

NextCalendar == ComputeDefaultDate

SpecCalendar == InitCalendar /\ [][NextCalendar]_vars

\* C8: the default check date is today - 1, but today - 3 when today - 1 is a
\* Sunday and today - 2 when today - 1 is a Saturday; so Friday for a Monday,
\* Monday for a Tuesday, and never a Saturday or Sunday.
C8_DefaultCheckDate ==
    query.op = "default_date" =>
        LET t == query.day
            r == query.result
        IN  /\ r = t - (IF weekday(t - 1) = 6 THEN 3 ELSE IF weekday(t - 1) = 5 THEN 2 ELSE 1)
            /\ weekday(t) = 0 => (weekday(r) = 4 /\ r = t - 3)
            /\ weekday(t) = 1 => (weekday(r) = 0 /\ r = t - 1)
            /\ weekday(r) < 5
            /\ \A n \in (r + 1)..(t - 1) : weekday(n) >= 5

\* the rule was applied on a Monday and gave the Friday before
C8_Witness ==
    /\ query.op = "default_date"
    /\ weekday(query.day) = 0
    /\ weekday(query.result) = 4

----------------------------------------------------------------------------
(* Reminder scheduler: ScheduledTasks.daily_reminder (src/bot/tasks.py) *)

\* a look-up that takes a feature missing from the file as switched on
is_feature_enabled_by_default(name) == IF name \in DOMAIN features THEN features[name] ELSE TRUE

\* is_feature_enabled(feature_name): features.get(feature_name, False)
is_feature_enabled(name) == IF name \in DOMAIN features THEN features[name] ELSE FALSE

\* _check_daily_collection_enabled()
check_daily_collection_enabled == is_feature_enabled("daily") /\ is_feature_enabled("daily_collection")

\* the toggles after /toggle daily and /toggle daily_collection
EnabledFeatures == [f \in {"ponto", "daily", "daily_collection"} |-> f # "ponto"]

\* lines 120-128, fetch_channel of DAILY_CHANNEL_ID: the variable is not set,
\* the channel is found, NotFound / Forbidden / ValueError, or another
\* exception of the HTTP call (discord.HTTPException)
ChannelOutcomes == {"unset", "found", "not_found", "error"}

\* an awaited fetch_user or user.send that neither returns nor raises
SendNeverReturns == {}

\* lines 138 and 166, per user: fetch_user raises, user.send raises, or the
\* message is delivered
SendOutcomes == {"fetch_failed", "send_failed", "sent"}

\* lines 168-170: pending_by_date[yesterday_db].append(user)
AddPending(pending, date, user) ==
    IF \E i \in DOMAIN pending : pending[i].date = date
    THEN [i \in DOMAIN pending |->
            IF pending[i].date = date
            THEN [pending[i] EXCEPT !.users = Append(@, user)]
            ELSE pending[i]]
    ELSE Append(pending, [date |-> date, users |-> <<user>>])

\* lines 92-131: the checks, the missing list and the channel look-up.  The
\* record keeps the day of the run and the registry as it was read.
CycleTrigger ==
    /\ cyc.pc = "idle"
    /\ NoSubmitInProgress
    /\ LET base == [IdleCyc EXCEPT !.day = today, !.registry = ignored]
           missing_users == get_missing_updates(None)
       IN  IF ~check_daily_collection_enabled
           THEN cyc' = [base EXCEPT !.outcome = "disabled"]
           ELSE IF weekday(today) >= 5
           THEN cyc' = [base EXCEPT !.outcome = "weekend"]
           ELSE IF should_ignore_date(today)
           THEN cyc' = [base EXCEPT !.outcome = "today_ignored"]
           ELSE IF should_ignore_date(today - 1)
           THEN cyc' = [base EXCEPT !.outcome = "yesterday_ignored"]
           ELSE IF missing_users = <<>>
           THEN cyc' = [base EXCEPT !.outcome = "none_missing", !.check = default_check_date(today)]
           ELSE \E ch \in ChannelOutcomes :
                IF ch = "error"
                THEN cyc' = [base EXCEPT !.outcome = "error", !.check = default_check_date(today),
                                         !.missing = missing_users]
                ELSE cyc' = [base EXCEPT !.pc = "sending", !.outcome = "dispatching",
                                         !.check = default_check_date(today),
                                         !.missing = missing_users, !.idx = 1,
                                         !.channel = (ch = "found")]
    /\ query' = NoQuery
    /\ UNCHANGED <<today, users, reports, nextReportId, sub, regVars, lastOp, features>>

\* lines 136-178: one turn of the loop over missing_users
CycleSend ==
    /\ cyc.pc = "sending"
    /\ cyc.idx <= Len(cyc.missing)
    /\ \E out \in SendOutcomes :
        LET user_id == cyc.missing[cyc.idx]
            yesterday_db == strftime(today - 1)
        IN  cyc' = [cyc EXCEPT
                !.attempts = Append(@, [user |-> user_id, outcome |-> out]),
                !.processed = IF out = "fetch_failed" THEN @ ELSE Append(@, user_id),
                !.pending = IF out = "sent" THEN AddPending(@, yesterday_db, user_id) ELSE @,
                !.idx = @ + 1]
    /\ query' = NoQuery
    /\ UNCHANGED <<today, users, reports, nextReportId, sub, regVars, lastOp, features>>

\* lines 180-181 and _send_public_reminder: the digest goes to the daily
\* channel, else to the first usable channel of a guild; the bot may be in no
\* guild, no channel may be usable, and channel.send may raise
CycleFinish ==
    /\ cyc.pc = "sending"
    /\ cyc.idx > Len(cyc.missing)
    /\ \E guilds \in BOOLEAN, usable \in BOOLEAN, delivered \in BOOLEAN :
        LET digest ==
                IF cyc.processed # <<>> /\ (cyc.channel \/ guilds)
                THEN IF ~cyc.channel /\ ~usable THEN "no_channel"
                     ELSE IF delivered THEN "sent" ELSE "failed"
                ELSE "none"
        IN  cyc' = [cyc EXCEPT !.pc = "idle", !.outcome = "done", !.digest = digest]
    /\ query' = NoQuery
    /\ UNCHANGED <<today, users, reports, nextReportId, sub, regVars, lastOp, features>>

\* the report dates of the users the cycle is about: none given, or the date
\* the cycle checks
CycleSubmitBegin ==
    /\ NoSubmitInProgress
    /\ \E uid \in UserIds, rd \in {None, strftime(default_check_date(today))} :
        submit_begin(1, uid, "c1", rd)

\* configurations around the day of the run, made before the task runs
CycleConfigTexts ==
    { strftime(today), Unpadded(today), strftime(today - 1), strftime(default_check_date(today)) }

CycleConfig ==
    /\ NoSubmitInProgress
    /\ cyc = IdleCyc
    /\ \E text \in CycleConfigTexts : on_submit(text)
    /\ query' = NoQuery
    /\ UNCHANGED <<today, users, reports, nextReportId, sub, cycVars>>

\* rosters of the scheduler specification
CycleRosters == {r \in Rosters : Len(r) = 2 /\ r[1].user_id = "u1" /\ r[1].role = "teammember"}

InitCycle ==
    /\ today \in FirstToday..(FirstToday + MaxDays)
    /\ users \in CycleRosters
    /\ reports = <<>>
    /\ nextReportId = 1
    /\ sub = [p \in Procs |-> IdleSub]
    /\ ignored = <<>>
    /\ nextIgnoredId = 1
    /\ cfg = IdleCfg
    /\ query = NoQuery
    /\ lastOp = NoOp
    /\ features \in {DEFAULT_FEATURES, EnabledFeatures}
    /\ cyc = IdleCyc

NextCycle ==
    \/ CycleTrigger
    \/ CycleSend
    \/ CycleFinish
    \/ CycleSubmitBegin
    \/ SubmitWrite
    \/ CycleConfig

SpecCycle == InitCycle /\ [][NextCycle]_vars

AttemptedUsers == [i \in DOMAIN cyc.attempts |-> cyc.attempts[i].user]

\* C3: every private reminder a cycle sends is for a check date that is a
\* weekday and lies in no ignored range stored when the cycle ran.
C3_RemindersOnlyForCheckableDates ==
    (\E i \in DOMAIN cyc.attempts : cyc.attempts[i].outcome = "sent") =>
        (weekday(cyc.check) < 5 /\ ~LiesInRange(cyc.registry, cyc.check))

\* C9: a cycle triggered on a weekend, or with today or yesterday inside a
\* stored ignored range, ends at once: no private notification, no digest, no
\* error.
C9_CycleAbortsOnExemptDay ==
    (cyc.outcome # "none"
        /\ (\/ weekday(cyc.day) >= 5
            \/ LiesInRange(cyc.registry, cyc.day)
            \/ LiesInRange(cyc.registry, cyc.day - 1)))
    => (cyc.pc = "idle" /\ cyc.attempts = <<>> /\ cyc.digest = "none" /\ cyc.outcome # "error")

\* C10: in a cycle every user of the computed missing list gets exactly one
\* notification attempt, in turn, whatever the outcome of the attempts before.
C10_OneAttemptPerMissingUser ==
    /\ cyc.pc = "sending" => AttemptedUsers = SubSeq(cyc.missing, 1, cyc.idx - 1)
    /\ cyc.pc = "idle" => AttemptedUsers = cyc.missing

\* the users the digest names: every user of every date group
DigestUsers ==
    {uid \in UserIds : \E i \in DOMAIN cyc.pending : \E k \in DOMAIN cyc.pending[i].users :
        cyc.pending[i].users[k] = uid}

SentUsers == {cyc.attempts[i].user : i \in {j \in DOMAIN cyc.attempts : cyc.attempts[j].outcome = "sent"}}

\* C11: the digest a cycle publishes names exactly the users whose private
\* notification was delivered in that cycle, each under the check date the
\* missing list was computed for.
C11_DigestGroupsByCheckDate ==
    (cyc.pc = "idle" /\ cyc.digest = "sent") =>
        /\ DigestUsers = SentUsers
        /\ \A i \in DOMAIN cyc.pending : cyc.pending[i].date = strftime(cyc.check)

----------------------------------------------------------------------------
(* The reminder task over consecutive days *)

\* number of times the clock moves on to the next day
RecurDays == 2

\* get_br_time() on the following day: the clock moves between two runs of
\* the task
NextDay ==
    /\ cyc.pc = "idle"
    /\ NoSubmitInProgress
    /\ today < FirstToday + 1 + RecurDays
    /\ today' = today + 1
    /\ query' = NoQuery
    /\ UNCHANGED <<users, reports, nextReportId, sub, regVars, lastOp, cycVars>>

\* /daily without a date (yesterday) or for the current day
RecurSubmitBegin ==
    /\ NoSubmitInProgress
    /\ cyc.pc = "idle"
    /\ \E uid \in UserIds, rd \in {None, strftime(today)} : submit_begin(1, uid, "c1", rd)

\* collection is switched on and the first run is on a Tuesday
InitRecur ==
    /\ today = FirstToday + 1
    /\ users \in CycleRosters
    /\ reports = <<>>
    /\ nextReportId = 1
    /\ sub = [p \in Procs |-> IdleSub]
    /\ ignored = <<>>
    /\ nextIgnoredId = 1
    /\ cfg = IdleCfg
    /\ query = NoQuery
    /\ lastOp = NoOp
    /\ features = EnabledFeatures
    /\ cyc = IdleCyc

NextRecur ==
    \/ CycleTrigger
    \/ CycleSend
    \/ CycleFinish
    \/ NextDay
    \/ RecurSubmitBegin
    \/ SubmitWrite

SpecRecur == InitRecur /\ [][NextRecur]_vars

\* C12: a team member whose reminder was not delivered in one cycle and who
\* still has no report for the date that cycle checked is in the missing list
\* the task computes on the following day.
C12_MissedReminderRecomputed ==
    [][(/\ cyc.pc = "idle" /\ cyc.outcome = "done"
        /\ cyc' # cyc
        /\ cyc'.day = cyc.day + 1
        /\ cyc'.outcome \in {"dispatching", "error", "none_missing"})
       => \A i \in DOMAIN cyc.attempts :
            (/\ cyc.attempts[i].outcome # "sent"
             /\ IsTeamMember(cyc.attempts[i].user)
             /\ ~HasReportFor(cyc.attempts[i].user, cyc.check))
            => \E k \in DOMAIN cyc'.missing : cyc'.missing[k] = cyc.attempts[i].user]_vars

----------------------------------------------------------------------------
(* On-demand escalation: ScheduledTasks.cobrar_daily (src/bot/tasks.py) and *)
(* AdminCommands.cobrar_daily (src/bot/commands/admin.py)                   *)

\* the two slash commands that implement the escalation
EscalationCommands == {"cobrar_daily", "cobrar-daily"}

\* who may invoke a command: the registered users and a user not in the roster
Invokers == UserIds \cup {"u0"}

\* check_user_is_po(user_id)
check_user_is_po(user_id) == \E user \in get_user(user_id) : user.role = "po"

\* a permission test that lets everybody through
has_permission_any(user_id, admin_role_id, holds_role) == TRUE

\* tasks.py 302-314, admin.py 725-737: a product owner, or ADMIN_ROLE_ID is
\* set and the member holds that role
has_permission(user_id, admin_role_id, holds_role) ==
    \/ check_user_is_po(user_id)
    \/ (admin_role_id /\ holds_role)

\* the date the delivered users are filed under: today - 1 in tasks.py
\* 374-375; admin.py 72-78 moves a Saturday or Sunday back to the Friday
yesterday_db(cmd) ==
    LET yesterday == today - 1
    IN  IF cmd = "cobrar-daily" /\ weekday(yesterday) >= 5
        THEN strftime(yesterday - (weekday(yesterday) - 4))
        ELSE strftime(yesterday)

\* _process_management_reminder: the loop over missing_users from position i,
\* outs giving what happens to each user
RECURSIVE process_management_reminder(_, _, _, _, _)
process_management_reminder(missing_users, outs, key, i, pending_by_date) ==
    IF i > Len(missing_users) THEN pending_by_date
    ELSE process_management_reminder(missing_users, outs, key, i + 1,
            IF outs[i] = "sent" THEN AddPending(pending_by_date, key, missing_users[i])
            ELSE pending_by_date)

\* what an escalation that stops before the missing list answers
Stopped(cmd, invoker, admin_role_id, holds_role, outcome) ==
    [op |-> "escalate", cmd |-> cmd, invoker |-> invoker, admin_role_id |-> admin_role_id,
     holds_role |-> holds_role, outcome |-> outcome, computed |-> FALSE,
     missing |-> <<>>, attempts |-> <<>>, pending |-> <<>>]

\* the command handler cobrar_daily of either cog.  in_channel: DAILY_CHANNEL_ID
\* is not set or names the channel of the interaction.
cobrar_daily(cmd, invoker, admin_role_id, holds_role, in_channel) ==
    LET stop(outcome) == Stopped(cmd, invoker, admin_role_id, holds_role, outcome)
        missing_users == get_missing_updates(None)
    IN  IF ~check_daily_collection_enabled
        THEN query' = stop("disabled")
        ELSE IF should_ignore_date(today)
        THEN query' = stop("today_ignored")
        ELSE IF cmd = "cobrar_daily" /\ should_ignore_date(today - 1)
        THEN query' = stop("yesterday_ignored")
        ELSE IF ~in_channel
        THEN query' = stop("wrong_channel")
        ELSE IF ~has_permission(invoker, admin_role_id, holds_role)
        THEN query' = stop("no_permission")
        ELSE IF missing_users = <<>>
        THEN query' = [stop("none_missing") EXCEPT !.computed = TRUE]
        ELSE \E outs \in [DOMAIN missing_users -> SendOutcomes] :
                query' = [stop("done") EXCEPT
                    !.computed = TRUE,
                    !.missing = missing_users,
                    !.attempts = [i \in DOMAIN missing_users |->
                                    [user |-> missing_users[i], outcome |-> outs[i]]],
                    !.pending = process_management_reminder(missing_users, outs,
                                                            yesterday_db(cmd), 1, <<>>)]

Escalate ==
    /\ NoSubmitInProgress
    /\ \E cmd \in EscalationCommands, invoker \in Invokers,
          admin_role_id \in BOOLEAN, holds_role \in BOOLEAN, in_channel \in BOOLEAN :
            cobrar_daily(cmd, invoker, admin_role_id, holds_role, in_channel)
    /\ UNCHANGED <<today, users, reports, nextReportId, sub, regVars, lastOp, cycVars>>

\* configurations of single days around the day of the command, zero-padded
EscalateConfigTexts == { strftime(today), strftime(today - 1) }

EscalateConfig ==
    /\ NoSubmitInProgress
    /\ \E text \in EscalateConfigTexts : on_submit(text)
    /\ query' = NoQuery
    /\ UNCHANGED <<today, users, reports, nextReportId, sub, cycVars>>

EscalateSubmitBegin ==
    /\ NoSubmitInProgress
    /\ \E uid \in UserIds : submit_begin(1, uid, "c1", strftime(default_check_date(today)))

\* number of days after FirstToday on which the command may be invoked
EscalateDays == 1

InitEscalate ==
    /\ today \in FirstToday..(FirstToday + EscalateDays)
    /\ users \in CycleRosters
    /\ reports = <<>>
    /\ nextReportId = 1
    /\ sub = [p \in Procs |-> IdleSub]
    /\ ignored = <<>>
    /\ nextIgnoredId = 1
    /\ cfg = IdleCfg
    /\ query = NoQuery
    /\ lastOp = NoOp
    /\ features \in {DEFAULT_FEATURES, EnabledFeatures}
    /\ cyc = IdleCyc

NextEscalate ==
    \/ Escalate
    \/ EscalateConfig
    \/ EscalateSubmitBegin
    \/ SubmitWrite

SpecEscalate == InitEscalate /\ [][NextEscalate]_vars

\* C13: an escalation made while today or yesterday lies in a stored ignored
\* range sends no private notification, whichever command is used.
C13_EscalationSkipsIgnoredDays ==
    (query.op = "escalate" /\ (LiesInRange(ignored, today) \/ LiesInRange(ignored, today - 1)))
        => \A i \in DOMAIN query.attempts : query.attempts[i].outcome # "sent"

\* the invoker is a product owner of the roster or holds the configured role
Privileged(q) ==
    \/ \E i \in DOMAIN users : users[i].user_id = q.invoker /\ users[i].role = "po"
    \/ (q.admin_role_id /\ q.holds_role)

\* C14: an escalation invoked by a user who is neither a product owner nor a
\* holder of the configured admin role computes no missing list and sends no
\* private notification.
C14_EscalationNeedsPrivilege ==
    (query.op = "escalate" /\ ~Privileged(query))
        => (~query.computed /\ query.attempts = <<>> /\ query.pending = <<>>)

\* a user without privilege invoked the command on a day that is not ignored,
\* with collection switched on and a team member missing, and was refused
C14_Witness ==
    /\ query.op = "escalate" /\ ~Privileged(query)
    /\ query.outcome = "no_permission"
    /\ get_missing_updates(None) # <<>>

----------------------------------------------------------------------------
(* The ignored-date registry under configuration, parsing and removal *)

Slash == 47

\* the date written YYYY/MM/DD
SlashYMD(n) == YearStr \o <<Slash>> \o TwoDigits(MonthOf(n)) \o <<Slash>> \o TwoDigits(DayOf(n))

\* the date written DD/MM/YYYY
SlashDMY(n) == TwoDigits(DayOf(n)) \o <<Slash>> \o TwoDigits(MonthOf(n)) \o <<Slash>> \o YearStr

\* the three ways of writing a date the configuration modal announces
DateFormats(n) == {strftime(n), SlashYMD(n), SlashDMY(n)}

\* the days the configuration texts are about: yesterday and today
RegistryDays == (today - 1)..today

\* a month that does not exist
BadMonth == YearStr \o <<Hyphen>> \o TwoDigits(13) \o <<Hyphen>> \o TwoDigits(1)

\* what is typed into the modal: single dates and ranges in each notation,
\* ranges in either order, lists with parts that are no dates, blank texts
RegistryTexts ==
    LET a == today - 1
        b == today
    IN  DateFormats(b)
        \cup {RangeText(x, y) : x \in DateFormats(a), y \in DateFormats(b)}
        \cup { RangeText(strftime(b), strftime(a)),
               Unpadded(b),
               CommaList(<<<<Digit(9)>>, strftime(a), BadMonth, strftime(b)>>),
               CommaList(<<strftime(a), SlashYMD(b)>>),
               CommaList(<<strftime(b), <<>>, strftime(a)>>),
               <<>>,
               <<Space>> }

\* the modal is submitted; the record keeps the text and the table before
RegistrySubmit ==
    /\ \E text \in RegistryTexts :
        /\ on_submit(text)
        /\ query' = [op |-> "config_submit", text |-> text, before |-> ignored]
    /\ UNCHANGED <<today, users, reports, nextReportId, sub, cycVars>>

\* parse_date_config applied to a text
ParseConfig ==
    /\ \E text \in RegistryTexts :
        query' = [op |-> "parse", text |-> text, result |-> parse_date_config(text)]
    /\ UNCHANGED <<today, users, reports, nextReportId, sub, regVars, lastOp, cycVars>>

\* /remover-data-ignorada id: refused while collection is switched off, an
\* unknown id is reported, else the row is deleted
RemoveRange ==
    /\ \E id \in 1..MaxIgnoredId :
        IF ~check_daily_collection_enabled
        THEN /\ lastOp' = [op |-> "remove", ok |-> FALSE, branch |-> "disabled"]
             /\ UNCHANGED regVars
        ELSE IF ~\E i \in DOMAIN get_all_ignored_dates : get_all_ignored_dates[i].id = id
        THEN /\ lastOp' = [op |-> "remove", ok |-> FALSE, branch |-> "not_found"]
             /\ UNCHANGED regVars
        ELSE /\ ignored' = remove_ignored_date(ignored, id)
             /\ lastOp' = [op |-> "remove", ok |-> TRUE, branch |-> "removed"]
             /\ UNCHANGED <<nextIgnoredId, cfg>>
    /\ query' = NoQuery
    /\ UNCHANGED <<today, users, reports, nextReportId, sub, cycVars>>

InitRegistry ==
    /\ today = FirstToday
    /\ users = <<>>
    /\ reports = <<>>
    /\ nextReportId = 1
    /\ sub = [p \in Procs |-> IdleSub]
    /\ ignored = <<>>
    /\ nextIgnoredId = 1
    /\ cfg = IdleCfg
    /\ query = NoQuery
    /\ lastOp = NoOp
    /\ features \in {DEFAULT_FEATURES, EnabledFeatures}
    /\ cyc = IdleCyc

NextRegistry ==
    \/ RegistrySubmit
    \/ ParseConfig
    \/ RemoveRange

SpecRegistry == InitRegistry /\ [][NextRegistry]_vars

\* the (start, end) pairs of the rows of a table, in rowid order
StoredPairs(rows) == [i \in DOMAIN rows |-> <<rows[i].start_date, rows[i].end_date>>]

\* C15: after a submission whose text parses to at least one pair, the registry
\* holds one range per parsed pair, in order, and no row stored before.
C15_SubmissionReplacesAll ==
    (query.op = "config_submit" /\ parse_date_config(query.text) # <<>>) =>
        /\ StoredPairs(ignored) = parse_date_config(query.text)
        /\ \A i \in DOMAIN ignored : \A j \in DOMAIN query.before : ignored[i].id # query.before[j].id

\* a submission of two pairs replaced a registry that held a range
C15_Witness ==
    /\ query.op = "config_submit"
    /\ Len(parse_date_config(query.text)) = 2
    /\ query.before # <<>>
    /\ Len(ignored) = 2

\* C16: every stored range has its start date not after its end date.
C16_StoredRangesOrdered ==
    \A i \in DOMAIN ignored :
        strptime(ignored[i].start_date).n <= strptime(ignored[i].end_date).n

\* C17: a date in any of the three notations is accepted alone, giving the
\* one-day pair, and as either side of a range joined by a hyphen, and always
\* comes out as YYYY-MM-DD.
C17_ThreeFormatsAccepted ==
    query.op = "parse" =>
        /\ \A n \in RegistryDays :
            query.text \in DateFormats(n) => query.result = <<(<<strftime(n), strftime(n)>>)>>
        /\ \A a, b \in RegistryDays : \A x \in DateFormats(a), y \in DateFormats(b) :
            query.text = RangeText(x, y) => query.result = <<(<<strftime(a), strftime(b)>>)>>

\* the parts of a text: split at the commas, blanks stripped
Tokens(text) == LET raw == Split(text, Comma) IN [i \in DOMAIN raw |-> strip(raw[i])]

\* what each part gives when parsed alone, joined in the order of the parts
RECURSIVE EachAlone(_)
EachAlone(parts) ==
    IF parts = <<>> THEN <<>> ELSE parse_date_config(parts[1]) \o EachAlone(Tail(parts))

\* C18: the result of parse_date_config is, part by part, what each part
\* gives alone: nothing for a part that is no date, one pair for a part that
\* is, whatever stands around it; so it is never longer than the list of parts.
C18_ParseKeepsValidParts ==
    query.op = "parse" =>
        /\ query.result = EachAlone(Tokens(query.text))
        /\ \A i \in DOMAIN Tokens(query.text) : Len(parse_date_config(Tokens(query.text)[i])) <= 1
        /\ Len(query.result) <= Len(Tokens(query.text))

\* a list of four parts of which the first and the third are no dates gave
\* the two pairs of the other parts
C18_Witness ==
    /\ query.op = "parse"
    /\ Len(Tokens(query.text)) = 4
    /\ parse_date_config(Tokens(query.text)[1]) = <<>>
    /\ parse_date_config(Tokens(query.text)[3]) = <<>>
    /\ Len(query.result) = 2

----------------------------------------------------------------------------
(* The team pending report *)

\* configurations of the working day before today: written with and without
\* zero padding, and as the first day of a range
TeamConfigTexts ==
    LET d == default_check_date(today)
    IN  { strftime(d), Unpadded(d), RangeText(strftime(d), strftime(today - 1)) }

TeamConfig ==
    /\ NoSubmitInProgress
    /\ \E text \in TeamConfigTexts : on_submit(text)
    /\ query' = NoQuery
    /\ UNCHANGED <<today, users, reports, nextReportId, sub, cycVars>>

\* /daily for one of the days of the window
TeamSubmitBegin ==
    /\ NoSubmitInProgress
    /\ \E uid \in UserIds, n \in (today - MaxLookback)..(today - 1) : submit_begin(1, uid, "c1", strftime(n))

InitTeam ==
    /\ today \in FirstToday..(FirstToday + 1)
    /\ users \in EngineRosters
    /\ reports = <<>>
    /\ nextReportId = 1
    /\ sub = [p \in Procs |-> IdleSub]
    /\ ignored = <<>>
    /\ nextIgnoredId = 1
    /\ cfg = IdleCfg
    /\ query = NoQuery
    /\ lastOp = NoOp
    /\ features = DEFAULT_FEATURES
    /\ cyc = IdleCyc

NextTeam ==
    \/ TeamPending
    \/ TeamConfig
    \/ TeamSubmitBegin
    \/ SubmitWrite

SpecTeam == InitTeam /\ [][NextTeam]_vars

\* the days the report lists for a user, read as calendar days
ListedDays(uid) ==
    IF uid \in DOMAIN query.result
    THEN {strptime(query.result[uid][i]).n : i \in DOMAIN query.result[uid]}
    ELSE {}

\* the days of the window on which the user owes a report
OwedDays(uid, periodo) ==
    {d \in (today - periodo)..(today - 1) :
        weekday(d) < 5 /\ ~LiesInRange(ignored, d) /\ ~HasReportFor(uid, d)}

\* C19: for every team member the team pending report lists exactly the days
\* of the window from today - lookback to today - 1 that are weekdays, lie in
\* no stored ignored range and have no report of that member.
C19_TeamPendingDates ==
    query.op = "team_pending" =>
        \A uid \in UserIds :
            IF IsTeamMember(uid)
            THEN ListedDays(uid) = OwedDays(uid, query.periodo)
            ELSE uid \notin DOMAIN query.result

----------------------------------------------------------------------------
(* Rejected submissions *)

\* report dates that are no YYYY-MM-DD date: a month 13 and a date written
\* DD/MM/YYYY
BadDates == {BadMonth, SlashDMY(today)}

\* submit_daily_update called with any user id and any date text
RejectSubmitBegin ==
    /\ NoSubmitInProgress
    /\ \E uid \in UserIds, c \in Contents, rd \in SubmitDates(StoreSpan) \cup BadDates :
        submit_begin(1, uid, c, rd)

NextReject == RejectSubmitBegin \/ SubmitWrite \/ ClearAllSeq

SpecReject == InitStore /\ [][NextReject]_vars

IsRegistered(uid) == \E i \in DOMAIN users : users[i].user_id = uid

Rejections == {"not_registered", "invalid_date"}

\* C20: a submit for a user who is not registered or with a date that is no
\* YYYY-MM-DD date is refused: the call returns failure, the table of reports
\* is left as it was, and no report of such a user or date is ever stored.
C20_RejectedSubmitChangesNothing ==
    [][/\ (lastOp'.op = "submit" /\ lastOp'.branch \in Rejections)
            => (~lastOp'.ok /\ reports' = reports /\ nextReportId' = nextReportId)
       /\ \A i \in DOMAIN reports' :
            IsRegistered(reports'[i].user_id) /\ strptime(reports'[i].report_date).ok]_vars

\* a submit with a date that does not parse was refused while the table
\* held a report
C20_Witness ==
    /\ lastOp.op = "submit" /\ lastOp.branch = "invalid_date"
    /\ reports # <<>>

----------------------------------------------------------------------------
(* Storage calls that raise sqlite3.Error *)

\* for each of n storage calls in turn, whether its statement raises
\* sqlite3.Error
Failures(n) == {f \in SeqsOver(BOOLEAN, n) : Len(f) = n}

\* date_config_modal.py lines 44-46 when the DELETE of the k-th entry raises
\* for fails[k]: remove_ignored_date logs the error and returns False, the
\* row stays, and the loop goes on
RECURSIVE RemoveEachFailing(_, _, _)
RemoveEachFailing(rows, existing_dates, fails) ==
    IF existing_dates = <<>> THEN rows
    ELSE RemoveEachFailing(IF fails[1] THEN rows
                           ELSE remove_ignored_date(rows, existing_dates[1].id),
                           Tail(existing_dates), Tail(fails))

\* date_config_modal.py lines 48-51 when the INSERT of the k-th pair raises
\* for fails[k]: add_ignored_date returns False, success_count is not
\* raised, and the loop goes on
RECURSIVE AddPairsFailing(_, _, _, _)
AddPairsFailing(rows, next, pairs, fails) ==
    IF pairs = <<>> THEN [rows |-> rows, next |-> next]
    ELSE IF strptime(pairs[1][1]).ok /\ strptime(pairs[1][2]).ok /\ ~fails[1]
    THEN AddPairsFailing(Append(rows, [id |-> next, start_date |-> pairs[1][1],
                                       end_date |-> pairs[1][2]]),
                         next + 1, Tail(pairs), Tail(fails))
    ELSE AddPairsFailing(rows, next, Tail(pairs), Tail(fails))

\* DateConfigModal.on_submit(text) with the storage calls failing as
\* remove_fails and add_fails say
on_submit_failing(text, remove_fails, add_fails) ==
    LET date_pairs == parse_date_config(text)
    IN  IF date_pairs = <<>>
        THEN /\ UNCHANGED regVars
             /\ lastOp' = [op |-> "config", ok |-> FALSE, branch |-> "no_valid_date"]
        ELSE LET removed == RemoveEachFailing(ignored, get_all_ignored_dates, remove_fails)
                 added == AddPairsFailing(removed, nextIgnoredId, date_pairs, add_fails)
             IN  /\ added.next <= MaxIgnoredId + 1
                 /\ ignored' = added.rows
                 /\ nextIgnoredId' = added.next
                 /\ UNCHANGED cfg
                 /\ lastOp' = [op |-> "config", ok |-> TRUE, branch |-> "configured"]

\* submit_daily_update lines 48-69 when the UPDATE or INSERT raises
\* sqlite3.Error for fail: nothing is committed and the call returns failure
submit_write_failing(p, fail) ==
    IF fail
    THEN /\ sub[p].pc = "write"
         /\ lastOp' = [op |-> "submit", ok |-> FALSE, branch |-> "storage_error"]
         /\ sub' = [sub EXCEPT ![p] = IdleSub]
         /\ UNCHANGED <<today, users, reports, nextReportId, regVars, cycVars>>
    ELSE submit_write(p)

\* clear_all_daily_updates when the DELETE raises sqlite3.Error for fail
clear_all_failing(fail) ==
    IF fail
    THEN /\ lastOp' = [NoOp EXCEPT !.op = "clear_all"]
         /\ UNCHANGED <<today, users, reports, nextReportId, sub, regVars, cycVars>>
    ELSE clear_all_daily_updates

\* remove_ignored_date(date_id) when the DELETE raises sqlite3.Error for fail
remove_failing(date_id, fail) ==
    /\ ignored' = IF fail THEN ignored ELSE remove_ignored_date(ignored, date_id)
    /\ lastOp' = [op |-> "remove", ok |-> ~fail /\ ignored' # ignored, branch |-> "storage"]
    /\ UNCHANGED <<today, users, reports, nextReportId, sub, nextIgnoredId, cfg, cycVars>>

\* what a step in which a storage call failed leaves in query: the two
\* tables as they were before the step
FailureRecord(failed) ==
    IF failed
    THEN [op |-> "storage_failure", reports |-> reports, ignored |-> ignored]
    ELSE NoQuery

\* texts of one date and of two dates
FailTexts == {strftime(today), CommaList(<<strftime(today - 1), strftime(today)>>)}

FailConfig ==
    /\ NoSubmitInProgress
    /\ \E text \in FailTexts :
         \E remove_fails \in Failures(Len(ignored)),
            add_fails \in Failures(Len(parse_date_config(text))) :
            /\ on_submit_failing(text, remove_fails, add_fails)
            /\ query' = FailureRecord((\E k \in DOMAIN remove_fails : remove_fails[k])
                                      \/ (\E j \in DOMAIN add_fails : add_fails[j]))
    /\ UNCHANGED <<today, users, reports, nextReportId, sub, cycVars>>

\* a report for the default date is submitted
FailSubmitBegin ==
    /\ NoSubmitInProgress
    /\ \E uid \in UserIds, c \in Contents : submit_begin(1, uid, c, None)

FailSubmitWrite ==
    \E fail \in BOOLEAN :
        /\ submit_write_failing(1, fail)
        /\ query' = FailureRecord(fail)

FailClearAll ==
    /\ NoSubmitInProgress
    /\ \E fail \in BOOLEAN :
        /\ clear_all_failing(fail)
        /\ query' = FailureRecord(fail)

FailRemove ==
    /\ NoSubmitInProgress
    /\ \E id \in 1..MaxIgnoredId, fail \in BOOLEAN :
        /\ remove_failing(id, fail)
        /\ query' = FailureRecord(fail)

NextFail == FailSubmitBegin \/ FailSubmitWrite \/ FailConfig \/ FailClearAll \/ FailRemove

SpecFail == InitStore /\ [][NextFail]_vars

\* C21: when a storage call fails during a submit, the removal of a range,
\* the clearing of the reports or the replacement of the registry by a
\* configuration submission, nothing is written: the reports and the ignored
\* ranges stored afterwards are exactly those stored before.
C21_FailureWritesNothing ==
    query.op = "storage_failure" => (reports = query.reports /\ ignored = query.ignored)

----------------------------------------------------------------------------
(* Timestamps of a report submitted again on a later day *)

NextStamp == RecurSubmitBegin \/ SubmitWrite \/ NextDay

SpecStamp == InitStore /\ [][NextStamp]_vars

\* the row of table rows with this id
RowsWithId(rows, id) == {i \in DOMAIN rows : rows[i].id = id}

\* a submit_daily_update call that found a report for its key writes
Resubmits(p) == sub[p].pc = "write" /\ sub'[p].pc = "idle" /\ sub[p].existing # 0

\* C22 as stated: after a second submit for the same (user, date), submitted_at
\* and last_updated_at of the report both equal the time of the second submit.
C22_ResubmitOverwritesBothTimestamps ==
    [][\A p \in Procs :
        Resubmits(p) =>
            \A i \in RowsWithId(reports', sub[p].existing) :
                /\ reports'[i].submitted_at = now
                /\ reports'[i].last_updated_at = now]_vars

\* C22 as amended: after a second submit for the same (user, date),
\* last_updated_at of the report equals the time of the second submit and
\* submitted_at is still the time of the first submit.
C22_ResubmitRefreshesLastUpdated ==
    [][\A p \in Procs :
        Resubmits(p) =>
            \A i \in RowsWithId(reports', sub[p].existing) :
                /\ reports'[i].last_updated_at = now
                /\ \A j \in RowsWithId(reports, sub[p].existing) :
                       reports'[i].submitted_at = reports[j].submitted_at]_vars

\* a report submitted on one day was submitted again on a later day
C22_Witness ==
    /\ lastOp.op = "submit" /\ lastOp.branch = "updated"
    /\ \E i \in DOMAIN reports :
        reports[i].submitted_at < reports[i].last_updated_at /\ reports[i].last_updated_at = now

----------------------------------------------------------------------------
(* Termination of a run of daily_reminder *)

\* collection is switched on and the run is on a Tuesday or a Wednesday
InitFair ==
    /\ today \in (FirstToday + 1)..(FirstToday + 2)
    /\ users \in CycleRosters
    /\ reports = <<>>
    /\ nextReportId = 1
    /\ sub = [p \in Procs |-> IdleSub]
    /\ ignored = <<>>
    /\ nextIgnoredId = 1
    /\ cfg = IdleCfg
    /\ query = NoQuery
    /\ lastOp = NoOp
    /\ features = EnabledFeatures
    /\ cyc = IdleCyc

NextFair ==
    \/ CycleTrigger
    \/ CycleSend
    \/ CycleFinish
    \/ CycleSubmitBegin
    \/ SubmitWrite

\* the event loop resumes the task whenever the call it awaits has returned
\* or raised: a turn of the loop, and the step after the loop, that can be
\* taken is taken
SpecFair == InitFair /\ [][NextFair]_vars /\ WF_vars(CycleSend) /\ WF_vars(CycleFinish)

\* C23: every triggered run of the task comes to its end and the task is idle
\* again, whether it aborted, found nobody missing or dispatched; a failed
\* private notification, user or channel look-up or digest neither leaves the
\* run stuck nor escapes it.
C23_CycleReturnsToIdle == (cyc.pc = "sending") ~> (cyc.pc = "idle" /\ cyc.outcome = "done")

\* a run in which a look-up of a user, a send and the digest failed is over
C23_Witness ==
    /\ cyc.pc = "idle" /\ cyc.outcome = "done"
    /\ \E i \in DOMAIN cyc.attempts : cyc.attempts[i].outcome = "fetch_failed"
    /\ \E i \in DOMAIN cyc.attempts : cyc.attempts[i].outcome = "send_failed"
    /\ cyc.digest = "failed"

----------------------------------------------------------------------------
(* A configuration submission and the readers of the registry in the same  *)
(* process: DateConfigModal.on_submit runs on the event loop of the bot,   *)
(* as the reminder task and every other handler do                         *)

\* an on_submit that awaits between its delete loop and its insert loop
AwaitsBetweenPhases == TRUE

\* date_config_modal.py lines 44-51: get_all_ignored_dates, remove_ignored_date
\* and add_ignored_date are plain functions and no await stands between the
\* two loops
YieldsBetweenPhases == FALSE

\* another coroutine of the process can run: the handler is not started, is
\* suspended in an await, or is over
LoopFree == cfg.pc # "between" \/ YieldsBetweenPhases

\* line 27: await interaction.response.defer(...)
ConfigDefer ==
    /\ cfg.pc = "idle"
    /\ \E text \in {strftime(today), strftime(today - 1),
                    CommaList(<<strftime(today - 1), strftime(today)>>), <<Space>>} :
        cfg' = [IdleCfg EXCEPT !.pc = "deferred", !.text = text]
    /\ query' = NoQuery
    /\ UNCHANGED <<today, users, reports, nextReportId, sub, ignored, nextIgnoredId, lastOp, cycVars>>

\* lines 29-46: the text is parsed; without a valid pair the handler warns
\* and returns, else every stored row is removed
ConfigDelete ==
    /\ cfg.pc = "deferred"
    /\ LET date_pairs == parse_date_config(cfg.text)
       IN  IF date_pairs = <<>>
           THEN /\ cfg' = IdleCfg
                /\ lastOp' = [op |-> "config", ok |-> FALSE, branch |-> "no_valid_date"]
                /\ UNCHANGED ignored
           ELSE /\ ignored' = RemoveEach(ignored, get_all_ignored_dates)
                /\ cfg' = [cfg EXCEPT !.pc = "between", !.old = ignored, !.pairs = date_pairs]
                /\ UNCHANGED lastOp
    /\ query' = NoQuery
    /\ UNCHANGED <<today, users, reports, nextReportId, sub, nextIgnoredId, cycVars>>

\* lines 48-51: add_ignored_date for every pair
ConfigInsert ==
    /\ cfg.pc = "between"
    /\ LET added == AddPairs(ignored, nextIgnoredId, cfg.pairs)
       IN  /\ added.next <= MaxIgnoredId + 1
           /\ ignored' = added.rows
           /\ nextIgnoredId' = added.next
    /\ cfg' = IdleCfg
    /\ lastOp' = [op |-> "config", ok |-> TRUE, branch |-> "configured"]
    /\ query' = NoQuery
    /\ UNCHANGED <<today, users, reports, nextReportId, sub, cycVars>>

\* a handler or the reminder task reads the registry: get_all_ignored_dates()
\* and should_ignore_date(today); the record keeps where on_submit stood
ReadRegistry ==
    /\ LoopFree
    /\ query' = [op |-> "read_registry", list |-> get_all_ignored_dates,
                 ignored_today |-> should_ignore_date(today), during |-> cfg]
    /\ UNCHANGED <<today, users, reports, nextReportId, sub, regVars, lastOp, cycVars>>

NextReplace == ConfigDefer \/ ConfigDelete \/ ConfigInsert \/ ReadRegistry

SpecReplace == InitRegistry /\ [][NextReplace]_vars

\* on_submit has removed the rows of a non-empty registry and is about to
\* insert a non-empty list of pairs
BetweenPhases == cfg.pc = "between" /\ cfg.old # <<>> /\ cfg.pairs # <<>>

\* C24 as stated: between the delete phase and the insert phase of a
\* configuration submission that replaces a non-empty registry by a non-empty
\* one, a reader in the same process can run and observes an empty registry.
C24_ReaderRunsBetweenPhases == BetweenPhases => (ignored = <<>> /\ ENABLED ReadRegistry)

\* C24 as amended: between the two phases the stored registry is empty, but
\* no reader in the same process ever observes it: what a reader sees while a
\* submission is in progress is the registry as it was before the delete
\* phase.
C24_NoReaderBetweenPhases ==
    /\ BetweenPhases => ignored = <<>>
    /\ query.op = "read_registry" => (query.during.pc # "between" /\ query.list = get_all_ignored_dates)

\* the state between the phases is reached: the old registry is removed and
\* the new one is not yet stored
C24_Witness == BetweenPhases /\ ignored = <<>> /\ Len(cfg.old) = 2

----------------------------------------------------------------------------
(* Recipients of a run and reports submitted during its fan-out *)

\* the users of the missing list the run computed
MissingUsers == {cyc.missing[k] : k \in DOMAIN cyc.missing}

\* the users the run tried to notify
Recipients == {cyc.attempts[i].user : i \in DOMAIN cyc.attempts}

\* C25: the recipients of a run are the users of the missing list it computed
\* at its start: when the run is over the set of users attempted is exactly
\* that list, also for a user who submitted the report for the date checked
\* while the fan-out was in progress.
C25_RecipientsFixedAtStart ==
    /\ Recipients \subseteq MissingUsers
    /\ cyc.pc = "idle" => Recipients = MissingUsers

----------------------------------------------------------------------------
(* The digest of a run whose private notifications failed *)

\* C26: a run posts the public digest only if at least one private reminder
\* of that run was delivered; when every private send failed no digest is
\* posted.
C26_DigestNeedsDeliveredReminder ==
    cyc.digest = "sent" => \E i \in DOMAIN cyc.attempts : cyc.attempts[i].outcome = "sent"

----------------------------------------------------------------------------
(* A reminded user who submits without a date *)

\* C27: a user a run reminded who then, on the same day, submits a report
\* without a date (so for yesterday) is not in the missing list the default
\* computation gives afterwards on that day, on every weekday the run can be
\* on, Monday included.
C27_DefaultSubmitAnswersReminder ==
    [][\A p \in Procs :
        (/\ sub[p].pc = "write" /\ sub'[p].pc = "idle" /\ lastOp'.ok
         /\ sub[p].date = default_report_date
         /\ cyc.day = today
         /\ sub[p].user \in SentUsers)
        => \A k \in DOMAIN get_missing_updates(None)' :
              get_missing_updates(None)'[k] # sub[p].user]_vars

----------------------------------------------------------------------------
(* Feature flags: src/storage/feature_toggle.py *)

\* the choices of /toggle
FeatureNames == {"daily", "daily_collection"}

\* toggle_feature(feature_name): a name missing from the file is entered as
\* False, then the value is negated and the file saved
toggle_feature(feature_name) ==
    LET loaded == IF feature_name \in DOMAIN features
                  THEN features
                  ELSE [f \in DOMAIN features \cup {feature_name} |->
                            IF f = feature_name THEN FALSE ELSE features[f]]
    IN  features' = [loaded EXCEPT ![feature_name] = ~@]

\* /toggle funcionalidade=name, used by a member who holds the permission
Toggle ==
    /\ \E name \in FeatureNames : toggle_feature(name)
    /\ lastOp' = [NoOp EXCEPT !.op = "toggle", !.ok = TRUE]
    /\ query' = NoQuery
    /\ UNCHANGED <<today, users, reports, nextReportId, sub, regVars, cyc>>

\* no flag was ever toggled; the run is on a Monday or a Tuesday
InitFlags ==
    /\ today \in FirstToday..(FirstToday + 1)
    /\ users \in CycleRosters
    /\ reports = <<>>
    /\ nextReportId = 1
    /\ sub = [p \in Procs |-> IdleSub]
    /\ ignored = <<>>
    /\ nextIgnoredId = 1
    /\ cfg = IdleCfg
    /\ query = NoQuery
    /\ lastOp = NoOp
    /\ features = DEFAULT_FEATURES
    /\ cyc = IdleCyc

NextFlags == Toggle \/ CycleTrigger \/ CycleSend \/ CycleFinish

SpecFlags == InitFlags /\ [][NextFlags]_vars

\* the flag is stored in the file fs with the value true
FlagOn(fs, name) == name \in DOMAIN fs /\ fs[name] = TRUE

\* C28: a run computes no missing list and sends nothing unless the flags
\* daily and daily_collection are both switched on when it starts; a flag
\* never toggled counts as switched off; every toggle inverts its flag and
\* leaves the others, so an even number of toggles restores the value.
C28_CycleNeedsBothFlags ==
    [][/\ (cyc.pc = "idle" /\ cyc' # cyc /\ ~(FlagOn(features, "daily") /\ FlagOn(features, "daily_collection")))
            => (/\ cyc'.pc = "idle" /\ cyc'.outcome = "disabled"
                /\ cyc'.missing = <<>> /\ cyc'.attempts = <<>> /\ cyc'.digest = "none")
       /\ features' # features
            => \E name \in FeatureNames :
                /\ FlagOn(features', name) = ~FlagOn(features, name)
                /\ \A other \in FeatureNames \ {name} : FlagOn(features', other) = FlagOn(features, other)]_vars

\* a run gave up at once with daily switched on and daily_collection toggled
\* twice, while team members were missing
C28_Witness ==
    /\ cyc.pc = "idle" /\ cyc.outcome = "disabled"
    /\ FlagOn(features, "daily")
    /\ "daily_collection" \in DOMAIN features /\ ~features["daily_collection"]
    /\ get_missing_updates(None) # <<>>

----------------------------------------------------------------------------
(* A configuration submission without a valid pair *)

\* C29: a configuration submission whose text yields no valid pair leaves the
\* registry exactly as it was: no row is removed, none is added, and no id is
\* used up.
C29_NoValidPairChangesNothing ==
    [][(query'.op = "config_submit" /\ parse_date_config(query'.text) = <<>>)
        => (/\ ignored' = ignored
            /\ nextIgnoredId' = nextIgnoredId
            /\ lastOp'.branch = "no_valid_date")]_vars

\* a text in a notation the parser refuses was submitted while the registry
\* held a range, and the range is still there
C29_Witness ==
    /\ query.op = "config_submit"
    /\ query.text = SlashDMY(today)
    /\ lastOp.branch = "no_valid_date"
    /\ query.before # <<>>
    /\ ignored = query.before

----------------------------------------------------------------------------
(* Roster: register_user and remove_user (src/storage/users.py) *)

\* the roles /registrar offers, and one register_user refuses
RegisterRoles == Roles \cup {"admin"}

\* register_user(user_id, role): a role other than teammember and po is
\* refused; the row of a registered user is updated, else a row is inserted
register_user(user_id, role) ==
    IF role \notin {"teammember", "po"}
    THEN /\ lastOp' = [op |-> "register", ok |-> FALSE, branch |-> "invalid_role"]
         /\ UNCHANGED users
    ELSE IF get_user(user_id) # {}
    THEN /\ users' = [i \in DOMAIN users |->
                        IF users[i].user_id = user_id THEN [users[i] EXCEPT !.role = role]
                        ELSE users[i]]
         /\ lastOp' = [op |-> "register", ok |-> TRUE, branch |-> "updated"]
    ELSE /\ users' = Append(users, [user_id |-> user_id, role |-> role])
         /\ lastOp' = [op |-> "register", ok |-> TRUE, branch |-> "registered"]

\* remove_user(user_id): DELETE FROM users WHERE user_id = ?, refused for a
\* user who is not registered
remove_user(user_id) ==
    IF get_user(user_id) = {}
    THEN /\ lastOp' = [op |-> "remove_user", ok |-> FALSE, branch |-> "not_found"]
         /\ UNCHANGED users
    ELSE /\ users' = SelectSeq(users, LAMBDA row : row.user_id # user_id)
         /\ lastOp' = [op |-> "remove_user", ok |-> TRUE, branch |-> "removed"]

\* /registrar tipo usuario
Register ==
    /\ \E user_id \in UserIds, role \in RegisterRoles : register_user(user_id, role)
    /\ query' = NoQuery
    /\ UNCHANGED <<today, reports, nextReportId, sub, regVars, cycVars>>

\* /remover usuario
Remove ==
    /\ \E user_id \in UserIds : remove_user(user_id)
    /\ query' = NoQuery
    /\ UNCHANGED <<today, reports, nextReportId, sub, regVars, cycVars>>

\* nobody is registered, collection is switched on, the day is a Tuesday
InitRoster ==
    /\ today = FirstToday + 1
    /\ users = <<>>
    /\ reports = <<>>
    /\ nextReportId = 1
    /\ sub = [p \in Procs |-> IdleSub]
    /\ ignored = <<>>
    /\ nextIgnoredId = 1
    /\ cfg = IdleCfg
    /\ query = NoQuery
    /\ lastOp = NoOp
    /\ features = EnabledFeatures
    /\ cyc = IdleCyc

NextRoster == Register \/ Remove \/ CycleTrigger \/ CycleSend \/ CycleFinish

SpecRoster == InitRoster /\ [][NextRoster]_vars

\* every user_id has at most one row, and its role is one of the two
OneRecordPerUser(roster) ==
    /\ \A i, j \in DOMAIN roster : roster[i].user_id = roster[j].user_id => i = j
    /\ \A i \in DOMAIN roster : roster[i].role \in Roles

\* the task starts a run in this step
RunStarts == cyc.pc = "idle" /\ cyc' # cyc

\* the task makes a notification attempt in this step
AttemptMade == Len(cyc'.attempts) = Len(cyc.attempts) + 1

====
